---------------------------- MODULE Spec2Model ----------------------------
(***************************************************************************)
(* A model of the ALSA capture input stream of MPD                         *)
(* (src/input/plugins/AlsaInputPlugin.cxx): source identifier parsing,     *)
(* stream construction, the readiness monitor callbacks PrepareSockets and *)
(* DispatchSockets, driver recovery, pause/resume and teardown.            *)
(*                                                                         *)
(* Strings are tuples of one-character strings; a std::string_view is a    *)
(* record [null, s] so that a view with a null data() pointer differs from *)
(* an empty view with a valid pointer, as the code depends on it.          *)
(***************************************************************************)
EXTENDS Integers, Sequences, FiniteSets, TLC

(***************************************************************************)
(* Bounds of the model                                                     *)
(***************************************************************************)
\* the largest number of bytes one consumer read asks for
MaxRead == 2

(***************************************************************************)
(* errno values returned by the driver (negated, as ALSA returns them)     *)
(***************************************************************************)
EAGAIN == 11
EPIPE == 32
ESTRPIPE == 86

(***************************************************************************)
(* string_view helpers                                                     *)
(***************************************************************************)
NullView == [null |-> TRUE, s |-> <<>>]
View(str) == [null |-> FALSE, s |-> str]

Lower(c) ==
    CASE c = "A" -> "a"
      [] c = "L" -> "l"
      [] c = "S" -> "s"
      [] c = "F" -> "f"
      [] c = "O" -> "o"
      [] c = "R" -> "r"
      [] c = "M" -> "m"
      [] c = "T" -> "t"
      [] OTHER -> c

\* index of the first occurrence of ch in str, 0 if there is none
IndexOf(str, ch) ==
    IF \E i \in 1..Len(str) : str[i] = ch
    THEN CHOOSE i \in 1..Len(str) :
            str[i] = ch /\ \A j \in 1..(i-1) : str[j] # ch
    ELSE 0

\* Split(haystack, ch): the parts before and after the first ch; when
\* there is no ch the second part is a null view
Split(v, ch) ==
    LET i == IndexOf(v.s, ch)
    IN  IF i = 0
        THEN <<v, NullView>>
        ELSE <<View(SubSeq(v.s, 1, i-1)), View(SubSeq(v.s, i+1, Len(v.s)))>>

\* StringAfterPrefixIgnoreCase(haystack, needle): the rest of haystack
\* after needle, compared ignoring case; a null view when it does not
\* start with needle
StringAfterPrefixIgnoreCase(v, prefix) ==
    IF v.null THEN NullView
    ELSE IF /\ Len(v.s) >= Len(prefix)
            /\ \A i \in 1..Len(prefix) : Lower(v.s[i]) = Lower(prefix[i])
         THEN View(SubSeq(v.s, Len(prefix)+1, Len(v.s)))
         ELSE NullView

ALSA_URI_PREFIX == <<"a","l","s","a",":","/","/">>
FORMAT_KEY == <<"f","o","r","m","a","t","=">>
BUILTIN_DEFAULT_DEVICE == <<"d","e","f","a","u","l","t">>

(***************************************************************************)
(* Audio format parsing: "rate:bits:channels"                              *)
(***************************************************************************)
DigitVal(c) ==
    CASE c = "0" -> 0 [] c = "1" -> 1 [] c = "2" -> 2 [] c = "3" -> 3
      [] c = "4" -> 4 [] c = "5" -> 5 [] c = "6" -> 6 [] c = "7" -> 7
      [] c = "8" -> 8 [] c = "9" -> 9 [] OTHER -> -1

RECURSIVE ParseUnsigned(_)
\* the decimal value of str, -1 when str is empty or holds a non-digit
ParseUnsigned(str) ==
    IF Len(str) = 0 THEN -1
    ELSE LET d == DigitVal(str[Len(str)])
         IN  IF d < 0 THEN -1
             ELSE IF Len(str) = 1 THEN d
             ELSE LET rest == ParseUnsigned(SubSeq(str, 1, Len(str)-1))
                  IN  IF rest < 0 THEN -1 ELSE rest * 10 + d

UndefinedFormat == [ok |-> FALSE, sample_rate |-> 0, frame_size |-> 0]

\* ParseAudioFormat(str, mask = false): a defined format, or ok = FALSE
\* where the code throws
ParseAudioFormat(str) ==
    LET p1 == Split(View(str), ":")
        p2 == IF p1[2].null THEN <<NullView, NullView>> ELSE Split(p1[2], ":")
        rate == ParseUnsigned(p1[1].s)
        bits == IF p2[1].null THEN -1 ELSE ParseUnsigned(p2[1].s)
        chan == IF p2[2].null THEN -1 ELSE ParseUnsigned(p2[2].s)
    IN  IF rate > 0 /\ bits \in {8, 16} /\ chan \in {1, 2}
        THEN [ok |-> TRUE, sample_rate |-> rate,
              frame_size |-> (bits \div 8) * chan]
        ELSE UndefinedFormat

\* AudioFormat::TimeToSize(ms)
TimeToSize(af, ms) == ((af.sample_rate * ms) \div 1000) * af.frame_size

DEFAULT_BUFFER_TIME == 1000
DEFAULT_RESUME_TIME == DEFAULT_BUFFER_TIME \div 2

(***************************************************************************)
(* AlsaInputStream::SourceSpec                                             *)
(***************************************************************************)
\* a device_name that falls back to the built-in device, not the configured
DeviceName_BuiltinDefault(dev0, config) ==
    IF ~dev0.null /\ Len(dev0.s) = 0 THEN View(BUILTIN_DEFAULT_DEVICE) ELSE dev0

\* device_name after the IsValidScheme() block: an empty device segment is
\* replaced by global_config.default_device
DeviceName(dev0, config) ==
    IF ~dev0.null /\ Len(dev0.s) = 0 THEN config.default_device ELSE dev0

\* the constructor: decoded is "yes" when ParseAudioFormat ran and
\* succeeded, "threw" when it ran and failed, "no" when it never ran and
\* audio_format was left as default-constructed
SourceSpec(uri, config) ==
    LET ab == Split(View(uri), "?")
        dev0 == StringAfterPrefixIgnoreCase(ab[1], ALSA_URI_PREFIX)
        fmt == IF ~ab[2].null
               THEN StringAfterPrefixIgnoreCase(ab[2], FORMAT_KEY)
               ELSE IF ~config.default_format.null
                    THEN config.default_format
                    ELSE NullView
        scheme == ~dev0.null
        dev == DeviceName(dev0, config)
        parsed == IF scheme /\ ~fmt.null
                  THEN ParseAudioFormat(fmt.s) ELSE UndefinedFormat
    IN  [uri |-> uri,
         device_name |-> dev,
         format_string |-> fmt,
         audio_format |-> parsed,
         decoded |-> IF scheme /\ ~fmt.null
                     THEN (IF parsed.ok THEN "yes" ELSE "threw")
                     ELSE "no"]

IsValidScheme(spec) == ~spec.device_name.null

IsValid(spec) == ~spec.device_name.null /\ ~spec.format_string.null


(***************************************************************************)
(* Inputs: source identifiers and the plugin configuration                 *)
(***************************************************************************)
UriHeads ==
    { <<"a","l","s","a",":","/","/">>,
      <<"A","L","S","A",":","/","/">>,
      <<"a","l","s","a",":","/">>,
      <<"h","t","t","p",":","/","/">>,
      <<>> }

UriDevices == { <<>>, <<"h","w">> }

\* the part from the first '?' on; <<>> is an identifier without '?'
UriQueries ==
    { <<>>,
      <<"?">>,
      <<"?","f","o","r","m","a","t","=","4",":","1","6",":","1">>,
      <<"?","F","O","R","M","A","T","=","3",":","8",":","1">>,
      <<"?","f","o","r","m","a","t","=","x">>,
      <<"?","f","o","r","m","a","t","=">>,
      <<"?","r","a","t","e","=","4">> }

Uris == { h \o d \o q : h \in UriHeads, d \in UriDevices, q \in UriQueries }

\* global_config after alsa_input_init: default_device and default_format
\* are the configured values or the built-in ones, never null
Configs ==
    { [default_device |-> View(BUILTIN_DEFAULT_DEVICE),
       default_format |-> View(<<"4",":","1","6",":","1">>)],
      [default_device |-> View(<<"h","w","1">>),
       default_format |-> View(<<"2",":","1","6",":","1">>)] }

\* what a default-constructed (never assigned) AudioFormat may hold
IndeterminateFormats ==
    { UndefinedFormat,
      [ok |-> TRUE, sample_rate |-> 2, frame_size |-> 2] }

PcmStates ==
    { "OPEN", "SETUP", "PREPARED", "RUNNING", "XRUN", "DRAINING",
      "PAUSED", "SUSPENDED", "DISCONNECTED" }

\* the negative results snd_pcm_readi() reports other than -EAGAIN
ReadErrors == { -EPIPE, -ESTRPIPE, -19 }

\* the results of the driver calls Recover() may make
DriverResults ==
    [pause : {0, -5}, resume : {0, -EAGAIN, -38},
     prepare : {0, -5}, start : {0, -5}]

(***************************************************************************)
(* Fixed-width integers of QobuzTagScanner::ResponseParser                 *)
(***************************************************************************)
\* an unsigned (32 bits) as its two 16-bit halves <<high, low>>
U32(n) == <<n \div 65536, n % 65536>>

\* ++ and -- on an unsigned: both wrap around
U32Inc(u) ==
    IF u[2] = 65535 THEN <<(u[1] + 1) % 65536, 0>> ELSE <<u[1], u[2] + 1>>

U32Dec(u) ==
    IF u[2] = 0 THEN <<(u[1] - 1) % 65536, 65535>> ELSE <<u[1], u[2] - 1>>

\* a long long as its sign and its magnitude in four 16-bit limbs, the most
\* significant first
LongLong(neg, mag) == [neg |-> neg, mag |-> mag]

IsPositive(value) == ~value.neg /\ value.mag # <<0, 0, 0, 0>>

\* (unsigned)value for a value that is not negative: the low 32 bits
ToUnsigned(value) == <<value.mag[3], value.mag[4]>>

(***************************************************************************)
(* QobuzTagScanner::ResponseParser: the yajl callbacks                     *)
(***************************************************************************)
NoDuration == [set |-> FALSE, s |-> U32(0)]

\* a ResponseParser after construction: state, map_depth and the TagBuilder
NewResponseParser ==
    [state |-> "NONE", map_depth |-> U32(0),
     tag |-> [items |-> <<>>, duration |-> NoDuration]]

\* TagBuilder::AddItem
AddItem(rp, type, value) ==
    [rp EXCEPT !.tag.items = Append(@, [type |-> type, value |-> value])]

\* TagBuilder::SetDuration(SignedSongTime::FromS(s))
SetDuration(rp, s) ==
    [rp EXCEPT !.tag.duration = [set |-> TRUE, s |-> s]]

Integer(rp, value) ==
    IF rp.state = "DURATION"
    THEN IF IsPositive(value) THEN SetDuration(rp, ToUnsigned(value)) ELSE rp
    ELSE rp

String(rp, value) ==
    CASE rp.state = "TITLE" ->
           IF rp.map_depth = U32(1) THEN AddItem(rp, "TAG_TITLE", value)
           ELSE rp
      [] rp.state = "COMPOSER_NAME" ->
           IF rp.map_depth = U32(2) THEN AddItem(rp, "TAG_COMPOSER", value)
           ELSE rp
      [] rp.state = "ALBUM_TITLE" ->
           IF rp.map_depth = U32(2) THEN AddItem(rp, "TAG_ALBUM", value)
           ELSE rp
      [] rp.state = "ALBUM_ARTIST_NAME" ->
           IF rp.map_depth = U32(3) THEN AddItem(rp, "TAG_ALBUM_ARTIST", value)
           ELSE rp
      [] rp.state = "PERFORMER_NAME" ->
           IF rp.map_depth = U32(2) THEN AddItem(rp, "TAG_PERFORMER", value)
           ELSE rp
      [] OTHER -> rp

StartMap(rp) == [rp EXCEPT !.map_depth = U32Inc(@)]

\* the state MapKey() assigns; the current state when it assigns none
MapKeyState(state, map_depth, value) ==
    CASE map_depth = U32(1) ->
           IF value = "composer" THEN "COMPOSER"
           ELSE IF value = "duration" THEN "DURATION"
           ELSE IF value = "title" THEN "TITLE"
           ELSE IF value = "album" THEN "ALBUM"
           ELSE IF value = "performer" THEN "PERFORMER"
           ELSE "NONE"
      [] map_depth = U32(2) ->
           CASE state \in {"NONE", "DURATION", "TITLE"} -> state
             [] state \in {"COMPOSER", "COMPOSER_NAME"} ->
                  IF value = "name" THEN "COMPOSER_NAME" ELSE "COMPOSER"
             [] state \in {"ALBUM", "ALBUM_TITLE", "ALBUM_ARTIST",
                           "ALBUM_ARTIST_NAME"} ->
                  IF value = "title" THEN "ALBUM_TITLE"
                  ELSE IF value = "artist" THEN "ALBUM_ARTIST"
                  ELSE "ALBUM"
             [] state \in {"PERFORMER", "PERFORMER_NAME"} ->
                  IF value = "name" THEN "PERFORMER_NAME" ELSE "PERFORMER"
             [] OTHER -> state
      [] map_depth = U32(3) ->
           CASE state \in {"ALBUM_ARTIST", "ALBUM_ARTIST_NAME"} ->
                  IF value = "name" THEN "ALBUM_ARTIST_NAME"
                  ELSE "ALBUM_ARTIST"
             [] OTHER -> state
      [] OTHER -> state

MapKey(rp, value) ==
    [rp EXCEPT !.state = MapKeyState(rp.state, rp.map_depth, value)]

EndMap(rp) ==
    LET state == CASE rp.map_depth = U32(2) -> "NONE"
                   [] rp.map_depth = U32(3) ->
                        IF rp.state \in {"ALBUM_TITLE", "ALBUM_ARTIST",
                                         "ALBUM_ARTIST_NAME"}
                        THEN "ALBUM" ELSE rp.state
                   [] OTHER -> rp.state
    IN  [rp EXCEPT !.state = state, !.map_depth = U32Dec(@)]

(***************************************************************************)
(* The JSON tokens yajl reads and the callbacks it makes                   *)
(***************************************************************************)
\* a token: its kind, its text (keys and strings) and its number (integers)
Token(t, v, n) == [t |-> t, v |-> v, n |-> n]

Zero == LongLong(FALSE, <<0, 0, 0, 0>>)

EnterObject == Token("enter_object", "", Zero)
ExitObject == Token("exit_object", "", Zero)
StartArray == Token("start_array", "", Zero)
EndArray == Token("end_array", "", Zero)
TokKey(name) == Token("key", name, Zero)
TokString(value) == Token("string", value, Zero)
TokInteger(value) == Token("integer", "", value)

\* yajl's own parse state: the open containers, whether a map key awaits its
\* value, and whether the top-level value is complete
NewYajl == [stack |-> <<>>, keyed |-> FALSE, done |-> FALSE]

YajlTop(y) == IF y.stack = <<>> THEN "none" ELSE y.stack[Len(y.stack)]

\* a token other than a closing brace is allowed where yajl stands
YajlAcceptsOther(y, tok) ==
    /\ ~y.done
    /\ CASE tok.t = "end_array" -> YajlTop(y) = "array"
         [] tok.t = "key" -> YajlTop(y) = "map" /\ ~y.keyed
         [] OTHER -> \/ YajlTop(y) = "none"
                     \/ YajlTop(y) = "array"
                     \/ YajlTop(y) = "map" /\ y.keyed

\* a yajl that lets every closing brace through to the callbacks
YajlAccepts_AnyExit(y, tok) ==
    IF tok.t = "exit_object" THEN TRUE ELSE YajlAcceptsOther(y, tok)

\* yajl_parse() reports an error for a token that is not allowed: a closing
\* brace is allowed only for the map that is open and has no pending key
YajlAccepts(y, tok) ==
    IF tok.t = "exit_object"
    THEN ~y.done /\ YajlTop(y) = "map" /\ ~y.keyed
    ELSE YajlAcceptsOther(y, tok)

\* yajl's state after a token it accepted
YajlNext(y, tok) ==
    LET closed(stack) == [stack |-> stack, keyed |-> FALSE,
                          done |-> stack = <<>>]
        pop == IF y.stack = <<>> THEN <<>>
               ELSE SubSeq(y.stack, 1, Len(y.stack) - 1)
    IN  CASE tok.t = "enter_object" ->
               [stack |-> Append(y.stack, "map"), keyed |-> FALSE,
                done |-> FALSE]
          [] tok.t = "start_array" ->
               [stack |-> Append(y.stack, "array"), keyed |-> FALSE,
                done |-> FALSE]
          [] tok.t = "key" -> [y EXCEPT !.keyed = TRUE]
          [] tok.t \in {"exit_object", "end_array"} -> closed(pop)
          [] OTHER -> closed(y.stack)

\* parse_callbacks: the ResponseParser method yajl calls for a token; the
\* array callbacks are null
Callback(rp, tok) ==
    CASE tok.t = "enter_object" -> StartMap(rp)
      [] tok.t = "exit_object" -> EndMap(rp)
      [] tok.t = "key" -> MapKey(rp, tok.v)
      [] tok.t = "string" -> String(rp, tok.v)
      [] tok.t = "integer" -> Integer(rp, tok.n)
      [] OTHER -> rp

(***************************************************************************)
(* QobuzTagScanner: the response and its parser                            *)
(***************************************************************************)
\* std::string::find(needle) != npos
Contains(hay, needle) ==
    \E i \in 1..(Len(hay) - Len(needle) + 1) :
        SubSeq(hay, i, i + Len(needle) - 1) = needle

JSON_SUBSTRING == <<"/","j","s","o","n">>

\* a MakeParser() that hands every response to the ResponseParser
MakeParser_AnyStatus(status, content_type) ==
    IF content_type.null \/ ~Contains(content_type.s, JSON_SUBSTRING)
    THEN "throw"
    ELSE "ResponseParser"

\* MakeParser(status, headers): content_type is headers.find("content-type"),
\* null when the header is missing; "throw" is the std::runtime_error
MakeParser(status, content_type) ==
    IF status # 200 THEN "QobuzErrorParser"
    ELSE IF content_type.null \/ ~Contains(content_type.s, JSON_SUBSTRING)
    THEN "throw"
    ELSE "ResponseParser"

NoOutcome == [tags |-> 0, errors |-> 0, tag |-> NewResponseParser.tag,
              error |-> "none"]

\* OnError(e): the error goes to the handler
OnError(handler, e) ==
    [handler EXCEPT !.errors = @ + 1, !.error = e]

\* FinishParser(p): the handler receives rp.GetTag()
FinishParser(handler, rp) ==
    [handler EXCEPT !.tags = @ + 1, !.tag = rp.tag]

NoBody == [script |-> <<>>, free |-> 0]

\* the scanner after its constructor: the request is under way
NewScanner ==
    [phase |-> "request", stopped |-> FALSE, parser |-> "none",
     rp |-> NewResponseParser, yajl |-> NewYajl, body |-> NoBody,
     handler |-> NoOutcome]

\* a destructor that leaves the request running
ScannerDtor_NoStop(s) == s

\* ~QobuzTagScanner(): request.StopIndirect() ends the request and frees
\* its parser
ScannerDtor(s) ==
    [s EXCEPT !.stopped = TRUE, !.parser = "none",
              !.rp = NewResponseParser, !.yajl = NewYajl, !.body = NoBody]

(***************************************************************************)
(* Inputs: responses of the Qobuz server                                   *)
(***************************************************************************)
MaxTokens == 5

Statuses == {200, 404}

ContentTypes ==
    { NullView,
      View(<<"a","p","p","l","i","c","a","t","i","o","n","/","j","s","o","n">>),
      View(<<"t","e","x","t","/","j","s","o","n",";"," ","c","h","a","r","s","e","t","=","u","t","f","-","8">>),
      View(<<"t","e","x","t","/","h","t","m","l">>),
      View(<<"a","p","p","l","i","c","a","t","i","o","n","/","j","s","o","n","p">>) }

Keys == {"title", "composer", "name", "album", "artist", "performer",
         "duration", "id"}

Strings == {"T", "C"}

\* 187, -5, 0 and 2^32 + 1
Integers64 ==
    { LongLong(FALSE, <<0, 0, 0, 187>>), LongLong(TRUE, <<0, 0, 0, 5>>),
      LongLong(FALSE, <<0, 0, 0, 0>>), LongLong(FALSE, <<0, 1, 0, 1>>) }

Alphabet ==
    {EnterObject, ExitObject, StartArray, EndArray}
        \cup {TokKey(k) : k \in Keys}
        \cup {TokString(v) : v \in Strings}
        \cup {TokInteger(v) : v \in Integers64}

\* {"title":"T","composer":{"name":"C"},
\*  "album":{"title":"A","artist":{"name":"AA"}},"duration":187}
TrackDocument ==
    << EnterObject, TokKey("title"), TokString("T"),
       TokKey("composer"), EnterObject, TokKey("name"), TokString("C"),
       ExitObject,
       TokKey("album"), EnterObject, TokKey("title"), TokString("A"),
       TokKey("artist"), EnterObject, TokKey("name"), TokString("AA"),
       ExitObject, ExitObject,
       TokKey("duration"), TokInteger(LongLong(FALSE, <<0, 0, 0, 187>>)),
       ExitObject >>

\* {"duration":-5,"performer":{"name":"P"},"composer":[{"name":"C"},{"name":"D"}]}
ArrayDocument ==
    << EnterObject, TokKey("duration"),
       TokInteger(LongLong(TRUE, <<0, 0, 0, 5>>)),
       TokKey("performer"), EnterObject, TokKey("name"), TokString("P"),
       ExitObject,
       TokKey("composer"), StartArray,
       EnterObject, TokKey("name"), TokString("C"), ExitObject,
       EnterObject, TokKey("name"), TokString("D"), ExitObject,
       EndArray, ExitObject >>

\* {"title":"T"}}
ExtraExitDocument ==
    << EnterObject, TokKey("title"), TokString("T"), ExitObject, ExitObject >>

Scripts == {TrackDocument, ArrayDocument, ExtraExitDocument}

\* a body is one of the documents, or any MaxTokens tokens
Bodies ==
    {[script |-> d, free |-> 0] : d \in Scripts}
        \cup {[script |-> <<>>, free |-> MaxTokens]}

\* the tokens the body may hold next
NextTokens(body) ==
    IF body.script # <<>> THEN {Head(body.script)}
    ELSE IF body.free > 0 THEN Alphabet
    ELSE {}

\* the body after that token
Advance(body) ==
    IF body.script # <<>>
    THEN [body EXCEPT !.script = Tail(@)]
    ELSE [body EXCEPT !.free = @ - 1]

(***************************************************************************)
(* State                                                                   *)
(***************************************************************************)
VARIABLES
    uri,            \* the source identifier passed to alsa_input_open
    config,         \* global_config
    c_pc,           \* the thread that opens, reads and destroys the stream
    create,         \* what AlsaInputStream::Create did and returned
    stream,         \* device, frame_size, capacity, resume_at, ready
    handle,         \* capture_handle: "none", "open", "closed"
    drv,            \* counts of the driver calls open/close/start
    pcm_state,      \* snd_pcm_state(capture_handle)
    head,           \* ring buffer read cursor
    size,           \* ring buffer bytes available
    paused,         \* AsyncInputStream::paused
    postponed_exception,
    notified,       \* the consumer was woken (InvokeOnAvailable)
    inject,         \* the event loop's queue of deferred invocations
    sockets,        \* the monitor holds the driver's descriptors
    refresh,        \* InvalidateSockets() asked for a PrepareSockets() run
    el_pc,          \* the event-loop thread: "idle", or "read" inside the
                    \* read/recover loop of DispatchSockets (mutex held)
    disp,           \* the current or most recent DispatchSockets run
    prep,           \* the most recent PrepareSockets run
    escaped,        \* an exception left a noexcept event-loop callback
    touched_closed, \* a driver call was made on a closed capture_handle
    scanner,        \* the QobuzTagScanner: request, parser and handler
    trace           \* what the response held and what the scanner did

stream_vars ==
    <<uri, config, c_pc, create, stream, handle, drv, pcm_state, head,
      size, paused, postponed_exception, notified, inject, sockets,
      refresh, el_pc, disp, prep, escaped, touched_closed>>

vars == <<stream_vars, scanner, trace>>

NoEvent == [t |-> "none", saved |-> "NONE", committed |-> "none",
            value |-> Zero]

NoTrace ==
    [status |-> 0, content_type |-> NullView, extractor |-> FALSE,
     document |-> <<>>, path |-> <<>>, entered |-> <<>>, expected |-> <<>>,
     extra_exit |-> FALSE, last |-> NoEvent, destroyed |-> FALSE,
     in_flight |-> FALSE, outcomes |-> 0]

NoStream ==
    [device |-> NullView, frame_size |-> 0, capacity |-> 0,
     resume_at |-> 0, ready |-> FALSE]

NoRecover == [state |-> "none", err |-> 0, calls |-> <<>>, ret |-> 0,
              resume |-> 0]

NoDispatch ==
    [w |-> 0, frames |-> 0, outcome |-> "none", committed |-> 0,
     rec |-> NoRecover, paused_after |-> FALSE, sockets_after |-> FALSE,
     exc_after |-> FALSE, notified_after |-> FALSE]

NoPrepare == [ran |-> FALSE, paused |-> FALSE, fds |-> FALSE,
              timeout |-> 0, consulted |-> FALSE]

InitWith(identifiers, configs) ==
    /\ uri \in identifiers
    /\ config \in configs
    /\ c_pc = "init"
    /\ create = [result |-> "none", scheme |-> FALSE, valid |-> FALSE,
                 decoded |-> "no", device |-> NullView]
    /\ stream = NoStream
    /\ handle = "none"
    /\ drv = [open_calls |-> 0, opened |-> 0, closed |-> 0, started |-> 0]
    /\ pcm_state = "OPEN"
    /\ head = 0
    /\ size = 0
    /\ paused = FALSE
    /\ postponed_exception = FALSE
    /\ notified = FALSE
    /\ inject = <<>>
    /\ sockets = FALSE
    /\ refresh = FALSE
    /\ el_pc = "idle"
    /\ disp = NoDispatch
    /\ prep = NoPrepare
    /\ escaped = FALSE
    /\ touched_closed = FALSE
    /\ scanner = NewScanner
    /\ trace = NoTrace

(***************************************************************************)
(* AlsaInputStream::Create, the constructor and OpenDevice                 *)
(***************************************************************************)
\* an OpenDevice() that rethrows a ConfigureCapture() failure without
\* closing the handle
OpenDevice_NoCloseOnFailure(af, open_ok, conf_ok) ==
    IF ~open_ok
    THEN [threw |-> TRUE, handle |-> "none",
          drv |-> [open_calls |-> 1, opened |-> 0, closed |-> 0, started |-> 0]]
    ELSE IF ~(conf_ok /\ af.ok)
    THEN [threw |-> TRUE, handle |-> "open",
          drv |-> [open_calls |-> 1, opened |-> 1, closed |-> 0, started |-> 0]]
    ELSE [threw |-> FALSE, handle |-> "open",
          drv |-> [open_calls |-> 1, opened |-> 1, closed |-> 0, started |-> 0]]

\* OpenDevice(audio_format): open_ok and conf_ok are the outcomes of
\* snd_pcm_open() and ConfigureCapture()
OpenDevice(af, open_ok, conf_ok) ==
    IF ~open_ok
    THEN [threw |-> TRUE, handle |-> "none",
          drv |-> [open_calls |-> 1, opened |-> 0, closed |-> 0, started |-> 0]]
    ELSE IF ~(conf_ok /\ af.ok)
    THEN [threw |-> TRUE, handle |-> "closed",
          drv |-> [open_calls |-> 1, opened |-> 1, closed |-> 1, started |-> 0]]
    ELSE [threw |-> FALSE, handle |-> "open",
          drv |-> [open_calls |-> 1, opened |-> 1, closed |-> 0, started |-> 0]]

\* a Create() that constructs the stream whatever the scheme
CreateDecision_NoSchemeCheck(spec) ==
    IF spec.decoded = "threw" THEN "error" ELSE "construct"

\* Create(): "null" is the nullptr that lets the next plugin try
CreateDecision(spec) ==
    IF spec.decoded = "threw" THEN "error"
    ELSE IF ~IsValidScheme(spec) THEN "null"
    ELSE "construct"

\* a constructor that calls InvalidateSockets() itself
CtorRegister_Direct == [inject |-> <<>>, refresh |-> TRUE]

\* the end of the constructor: defer_invalidate_sockets.Schedule() leaves
\* the first InvalidateSockets() to the event loop
CtorRegister == [inject |-> <<"invalidate">>, refresh |-> FALSE]

Create ==
    /\ c_pc = "init"
    /\ LET spec == SourceSpec(uri, config)
           decision == CreateDecision(spec)
           summary == [scheme |-> IsValidScheme(spec), valid |-> IsValid(spec),
                       decoded |-> spec.decoded,
                       device |-> spec.device_name]
       IN  IF decision # "construct"
           THEN /\ create' = [result |-> decision] @@ summary
                /\ c_pc' = "done"
                /\ UNCHANGED <<stream, handle, drv, pcm_state, inject, refresh>>
           ELSE \E af \in (IF spec.decoded = "yes" THEN {spec.audio_format}
                           ELSE IndeterminateFormats),
                   open_ok \in BOOLEAN, conf_ok \in BOOLEAN :
                LET od == OpenDevice(af, open_ok, conf_ok)
                IN  /\ handle' = od.handle
                    /\ IF od.threw
                       THEN /\ create' = [result |-> "error"] @@ summary
                            /\ c_pc' = "done"
                            /\ drv' = od.drv
                            /\ UNCHANGED <<stream, pcm_state, inject, refresh>>
                       ELSE /\ create' = [result |-> "stream"] @@ summary
                            /\ c_pc' = "open"
                            /\ stream' =
                                 [device |-> spec.device_name,
                                  frame_size |-> af.frame_size,
                                  capacity |-> TimeToSize(af, DEFAULT_BUFFER_TIME),
                                  resume_at |-> TimeToSize(af, DEFAULT_RESUME_TIME),
                                  ready |-> TRUE]
                            /\ drv' = [od.drv EXCEPT !.started = 1]
                            /\ pcm_state' = "RUNNING"
                            /\ inject' = CtorRegister.inject
                            /\ refresh' = CtorRegister.refresh
    /\ UNCHANGED <<scanner, trace, uri, config, head, size, paused, postponed_exception,
                   notified, sockets, el_pc, disp, prep, escaped,
                   touched_closed>>


(***************************************************************************)
(* Ring buffer of AsyncInputStream                                         *)
(***************************************************************************)
Free == stream.capacity - size

\* PrepareWriteBuffer(): the contiguous free span at the write cursor
WriteRegion ==
    IF size >= stream.capacity THEN 0
    ELSE LET tail == (head + size) % stream.capacity
         IN  IF tail >= head THEN stream.capacity - tail ELSE head - tail

\* the contiguous readable span at the read cursor
ReadRegion ==
    IF size = 0 THEN 0
    ELSE IF head + size <= stream.capacity THEN size
    ELSE stream.capacity - head

\* InjectEvent::Schedule(): no effect when already pending
Schedule(queue, ev) ==
    IF \E i \in 1..Len(queue) : queue[i] = ev THEN queue ELSE Append(queue, ev)

\* InjectEvent::Cancel()
Cancel(queue, ev) == SelectSeq(queue, LAMBDA e : e # ev)

(***************************************************************************)
(* AlsaInputStream::PrepareSockets                                         *)
(***************************************************************************)
\* a PrepareSockets() without the IsPaused() branch
PrepareSockets_IgnorePause(is_paused) ==
    [ran |-> TRUE, paused |-> is_paused, fds |-> TRUE,
     timeout |-> 1, consulted |-> TRUE]

\* the descriptors and timeout reported for the given pause flag;
\* consulted says whether non_block.PrepareSockets() was called
PrepareSockets(is_paused) ==
    IF is_paused
    THEN [ran |-> TRUE, paused |-> is_paused, fds |-> FALSE,
          timeout |-> -1, consulted |-> FALSE]
    ELSE [ran |-> TRUE, paused |-> is_paused, fds |-> TRUE,
          timeout |-> 1, consulted |-> TRUE]

\* a driver call made now is a call on a closed handle
Touch == touched_closed \/ handle = "closed"

\* MultiSocketMonitor::OnIdle with refresh set: Prepare()
Prepare ==
    /\ el_pc = "idle"
    /\ ~escaped
    /\ refresh
    /\ LET p == PrepareSockets(paused)
       IN  /\ prep' = p
           /\ sockets' = p.fds
           /\ touched_closed' = IF p.consulted THEN Touch ELSE touched_closed
    /\ refresh' = FALSE
    /\ UNCHANGED <<scanner, trace, uri, config, c_pc, create, stream, handle, drv, pcm_state,
                   head, size, paused, postponed_exception, notified, inject,
                   el_pc, disp, escaped>>

(***************************************************************************)
(* AlsaInputStream::Recover                                                *)
(***************************************************************************)
\* err: the negative result of snd_pcm_readi(); st: snd_pcm_state();
\* r: the results the driver calls give.  The result holds the value
\* returned, the driver calls made in order and the device state after.

\* case OPEN, SETUP, XRUN: snd_pcm_prepare(), then snd_pcm_start()
RecoverPrepare(st, r) ==
    IF r.prepare = 0
    THEN [ret |-> r.start, calls |-> <<"prepare", "start">>,
          state |-> IF r.start = 0 THEN "RUNNING" ELSE "PREPARED"]
    ELSE [ret |-> r.prepare, calls |-> <<"prepare">>, state |-> st]

\* a Recover() that treats a busy resume like any other resume result
RecoverSuspended_NoBusyCheck(st, r) ==
    [RecoverPrepare(st, r) EXCEPT !.calls = <<"resume">> \o @]

\* case SUSPENDED: snd_pcm_resume(); -EAGAIN returns 0, anything else
\* falls through to the prepare case
RecoverSuspended(st, r) ==
    IF r.resume = -EAGAIN
    THEN [ret |-> 0, calls |-> <<"resume">>, state |-> st]
    ELSE [RecoverPrepare(st, r) EXCEPT !.calls = <<"resume">> \o @]

\* a Recover() that treats a disconnected device like a running one
RecoverDisconnected_KeepRunning(err, st) ==
    [ret |-> 0, calls |-> <<>>, state |-> st]

\* case DISCONNECTED: err is returned as it came
RecoverDisconnected(err, st) ==
    [ret |-> err, calls |-> <<>>, state |-> st]

Recover(err, st, r) ==
    CASE st = "PAUSED" ->
           [ret |-> r.pause, calls |-> <<"pause">>,
            state |-> IF r.pause = 0 THEN "RUNNING" ELSE st]
      [] st = "SUSPENDED" -> RecoverSuspended(st, r)
      [] st \in {"OPEN", "SETUP", "XRUN"} -> RecoverPrepare(st, r)
      [] st = "DISCONNECTED" -> RecoverDisconnected(err, st)
      [] st \in {"PREPARED", "RUNNING", "DRAINING"} ->
           [ret |-> 0, calls |-> <<>>, state |-> st]
      [] OTHER -> [ret |-> err, calls |-> <<>>, state |-> st]

(***************************************************************************)
(* AlsaInputStream::DispatchSockets                                        *)
(***************************************************************************)
\* a frame count that takes the span's bytes for frames
WFrames_Bytes(w, frame_size) == w

\* w.size() / frame_size
WFrames(w, frame_size) == w \div frame_size

\* a DispatchSockets() without the catch block
CatchAll_Rethrow == [postponed |-> FALSE, notify |-> FALSE, escaped |-> TRUE]

\* the catch (...) block: what it stores, and whether the exception
\* leaves the noexcept function
CatchAll == [postponed |-> TRUE, notify |-> TRUE, escaped |-> FALSE]

\* a Pause() that forgets InvalidateSockets()
Pause_NoInvalidate == [paused |-> TRUE, refresh |-> FALSE]

\* AlsaInputStream::Pause(): AsyncInputStream::Pause() and
\* InvalidateSockets()
Pause == [paused |-> TRUE, refresh |-> TRUE]

\* the Prepare() that MultiSocketMonitor::OnIdle runs after every
\* DispatchSockets(), applied only when InvalidateSockets() or the
\* dispatch itself asked for it
AfterDispatch(is_paused, want_refresh) ==
    IF want_refresh THEN PrepareSockets(is_paused) ELSE prep

\* the start of DispatchSockets: non_block.DispatchSockets() (which may
\* throw: thrown), the lock, PrepareWriteBuffer() and the full-buffer test
DispatchBegin ==
    /\ el_pc = "idle"
    /\ ~escaped
    /\ sockets
    /\ touched_closed' = Touch
    /\ \E thrown \in BOOLEAN :
        LET w == WriteRegion
            frames == WFrames(w, stream.frame_size)
        IN  IF thrown
            THEN LET c == CatchAll
                     p == AfterDispatch(paused, TRUE)
                 IN  /\ postponed_exception' = (postponed_exception \/ c.postponed)
                     /\ notified' = (notified \/ c.notify)
                     /\ escaped' = c.escaped
                     /\ prep' = p
                     /\ sockets' = p.fds
                     /\ refresh' = FALSE
                     /\ disp' = [NoDispatch EXCEPT
                                   !.outcome = "throw0",
                                   !.paused_after = paused,
                                   !.sockets_after = p.fds,
                                   !.exc_after = c.postponed,
                                   !.notified_after = c.notify]
                     /\ UNCHANGED <<paused, el_pc>>
            ELSE IF frames = 0
            THEN LET pa == Pause
                     p == AfterDispatch(pa.paused, pa.refresh)
                 IN  /\ paused' = pa.paused
                     /\ prep' = p
                     /\ sockets' = p.fds
                     /\ refresh' = FALSE
                     /\ disp' = [NoDispatch EXCEPT
                                   !.w = w, !.frames = frames,
                                   !.outcome = "pause",
                                   !.paused_after = pa.paused,
                                   !.sockets_after = p.fds,
                                   !.exc_after = postponed_exception,
                                   !.notified_after = notified]
                     /\ UNCHANGED <<postponed_exception, notified, escaped, el_pc>>
            ELSE /\ el_pc' = "read"
                 /\ disp' = [NoDispatch EXCEPT
                               !.w = w, !.frames = frames, !.outcome = "reading"]
                 /\ UNCHANGED <<paused, prep, sockets, refresh,
                                postponed_exception, notified, escaped>>
    /\ UNCHANGED <<scanner, trace, uri, config, c_pc, create, stream, handle, drv, pcm_state,
                   head, size, inject>>

\* how one pass of the read loop ends: with frames read (n >= 0), with
\* -EAGAIN, or with an error handed to Recover()
DispatchEnd(outcome, nbytes, rec, exc) ==
    LET p == AfterDispatch(paused, TRUE)
    IN  /\ el_pc' = "idle"
        /\ size' = size + nbytes
        /\ postponed_exception' = (postponed_exception \/ exc.postponed)
        /\ notified' = (notified \/ exc.notify \/ outcome = "commit")
        /\ escaped' = exc.escaped
        /\ prep' = p
        /\ sockets' = p.fds
        /\ refresh' = FALSE
        /\ disp' = [disp EXCEPT
                      !.outcome = outcome,
                      !.committed = nbytes,
                      !.rec = rec,
                      !.paused_after = paused,
                      !.sockets_after = p.fds,
                      !.exc_after = (postponed_exception \/ exc.postponed),
                      !.notified_after =
                          (notified \/ exc.notify \/ outcome = "commit")]

NoThrow == [postponed |-> FALSE, notify |-> FALSE, escaped |-> FALSE]

\* snd_pcm_readi() returned n_frames >= 0: CommitWriteBuffer()
DispatchCommit ==
    /\ el_pc = "read"
    /\ \E n_frames \in 0..disp.frames :
        DispatchEnd("commit", n_frames * stream.frame_size, NoRecover, NoThrow)
    /\ touched_closed' = Touch
    /\ UNCHANGED <<scanner, trace, uri, config, c_pc, create, stream, handle, drv, pcm_state,
                   head, paused, inject>>

\* snd_pcm_readi() returned -EAGAIN: return
DispatchAgain ==
    /\ el_pc = "read"
    /\ DispatchEnd("again", 0, NoRecover, NoThrow)
    /\ touched_closed' = Touch
    /\ UNCHANGED <<scanner, trace, uri, config, c_pc, create, stream, handle, drv, pcm_state,
                   head, paused, inject>>

\* snd_pcm_readi() returned another error: Recover(), then either the
\* next pass of the loop or the throw into the catch block
DispatchRecover ==
    /\ el_pc = "read"
    /\ \E err \in ReadErrors, r \in DriverResults :
        LET rc == Recover(err, pcm_state, r)
            rec == [state |-> pcm_state, err |-> err, calls |-> rc.calls,
                    ret |-> rc.ret, resume |-> r.resume]
        IN  /\ pcm_state' = rc.state
            /\ IF rc.ret < 0
               THEN DispatchEnd("error", 0, rec, CatchAll)
               ELSE /\ disp' = [disp EXCEPT !.rec = rec]
                    /\ UNCHANGED <<el_pc, size, postponed_exception, notified,
                                   escaped, prep, sockets, refresh>>
    /\ touched_closed' = Touch
    /\ UNCHANGED <<scanner, trace, uri, config, c_pc, create, stream, handle, drv, head,
                   paused, inject>>

(***************************************************************************)
(* Deferred invocations run by the event loop                              *)
(***************************************************************************)
\* a DoResume() that forgets InvalidateSockets()
DoResume_NoInvalidate == [touch |-> TRUE, refresh |-> FALSE]

\* AlsaInputStream::DoResume(): snd_pcm_resume() and InvalidateSockets()
DoResume == [touch |-> TRUE, refresh |-> TRUE]

\* a destructor lambda that forgets MultiSocketMonitor::Reset()
TeardownLambda_NoReset(queue) ==
    [sockets |-> sockets, refresh |-> refresh,
     inject |-> Cancel(queue, "invalidate")]

\* the lambda the destructor runs through BlockingCall():
\* MultiSocketMonitor::Reset() and defer_invalidate_sockets.Cancel()
TeardownLambda(queue) ==
    [sockets |-> FALSE, refresh |-> FALSE, inject |-> Cancel(queue, "invalidate")]

\* defer_invalidate_sockets: InvalidateSockets()
RunInvalidate ==
    /\ el_pc = "idle"
    /\ ~escaped
    /\ inject # <<>>
    /\ Head(inject) = "invalidate"
    /\ inject' = Tail(inject)
    /\ refresh' = TRUE
    /\ UNCHANGED <<scanner, trace, uri, config, c_pc, create, stream, handle, drv, pcm_state,
                   head, size, paused, postponed_exception, notified, sockets,
                   el_pc, disp, prep, escaped, touched_closed>>

\* AsyncInputStream::DeferredResume: Resume() under the mutex
RunResume ==
    /\ el_pc = "idle"
    /\ ~escaped
    /\ inject # <<>>
    /\ Head(inject) = "resume"
    /\ inject' = Tail(inject)
    /\ IF paused
       THEN LET d == DoResume
            IN  /\ paused' = FALSE
                /\ refresh' = (refresh \/ d.refresh)
                /\ touched_closed' = IF d.touch THEN Touch ELSE touched_closed
       ELSE UNCHANGED <<paused, refresh, touched_closed>>
    /\ UNCHANGED <<scanner, trace, uri, config, c_pc, create, stream, handle, drv, pcm_state,
                   head, size, postponed_exception, notified, sockets, el_pc,
                   disp, prep, escaped>>

\* the destructor's lambda, run on the event-loop thread while the
\* destroying thread waits
RunTeardown ==
    /\ el_pc = "idle"
    /\ ~escaped
    /\ inject # <<>>
    /\ Head(inject) = "teardown"
    /\ LET t == TeardownLambda(Tail(inject))
       IN  /\ sockets' = t.sockets
           /\ refresh' = t.refresh
           /\ inject' = t.inject
    /\ c_pc' = "dtor_close"
    /\ UNCHANGED <<scanner, trace, uri, config, create, stream, handle, drv, pcm_state, head,
                   size, paused, postponed_exception, notified, el_pc, disp,
                   prep, escaped, touched_closed>>

(***************************************************************************)
(* The consumer thread                                                     *)
(***************************************************************************)
\* AsyncInputStream::Read(): needs the mutex; waits while there is neither
\* data nor an error; after consuming, asks for a resume when the stream
\* is paused and enough space is free
Read ==
    /\ c_pc = "open"
    /\ el_pc = "idle"
    /\ ~postponed_exception
    /\ size > 0
    /\ \E want \in 1..MaxRead :
        LET n == IF want < ReadRegion THEN want ELSE ReadRegion
        IN  /\ head' = (head + n) % stream.capacity
            /\ size' = size - n
            /\ inject' = IF paused /\ stream.capacity - (size - n) >= stream.resume_at
                         THEN Schedule(inject, "resume")
                         ELSE inject
    /\ notified' = FALSE
    /\ UNCHANGED <<scanner, trace, uri, config, c_pc, create, stream, handle, drv, pcm_state,
                   paused, postponed_exception, sockets, refresh, el_pc, disp,
                   prep, escaped, touched_closed>>

\* ~AlsaInputStream(): BlockingCall() queues the lambda and waits
DtorBegin ==
    /\ c_pc = "open"
    /\ c_pc' = "dtor_wait"
    /\ inject' = Append(inject, "teardown")
    /\ UNCHANGED <<scanner, trace, uri, config, create, stream, handle, drv, pcm_state, head,
                   size, paused, postponed_exception, notified, sockets,
                   refresh, el_pc, disp, prep, escaped, touched_closed>>

\* ~AlsaInputStream(): snd_pcm_close(capture_handle)
DtorClose ==
    /\ c_pc = "dtor_close"
    /\ c_pc' = "done"
    /\ handle' = "closed"
    /\ drv' = [drv EXCEPT !.closed = @ + 1]
    /\ touched_closed' = Touch
    /\ UNCHANGED <<scanner, trace, uri, config, create, stream, pcm_state, head, size, paused,
                   postponed_exception, notified, inject, sockets, refresh,
                   el_pc, disp, prep, escaped>>

(***************************************************************************)
(* The capture device                                                      *)
(***************************************************************************)
\* the device changes state on its own: overrun, suspend, unplug, ...
DeviceEvent ==
    /\ handle = "open"
    /\ c_pc = "open"
    /\ \E st \in PcmStates : pcm_state' = st
    /\ UNCHANGED <<scanner, trace, uri, config, c_pc, create, stream, handle, drv, head, size,
                   paused, postponed_exception, notified, inject, sockets,
                   refresh, el_pc, disp, prep, escaped, touched_closed>>

(***************************************************************************)
(* Specifications                                                          *)
(***************************************************************************)
\* identifiers of the streams whose whole life is explored
RunUris ==
    { <<"a","l","s","a",":","/","/">>,
      <<"A","L","S","A",":","/","/","h","w",
        "?","F","O","R","M","A","T","=","3",":","8",":","1">>,
      <<"h","t","t","p",":","/","/","h","w">> }

\* the configuration of those streams: a one-second buffer of 4 bytes
RunConfigs ==
    { [default_device |-> View(<<"h","w","1">>),
       default_format |-> View(<<"2",":","1","6",":","1">>)] }

Init == InitWith(RunUris, RunConfigs)

Next ==
    \/ Create
    \/ Prepare
    \/ DispatchBegin
    \/ DispatchCommit
    \/ DispatchAgain
    \/ DispatchRecover
    \/ RunInvalidate
    \/ RunResume
    \/ RunTeardown
    \/ Read
    \/ DtorBegin
    \/ DtorClose
    \/ DeviceEvent

Spec == Init /\ [][Next]_vars

\* every identifier, and the open path alone
OpenInit == InitWith(Uris, Configs)

OpenSpec == OpenInit /\ [][Create]_vars


(***************************************************************************)
(* QobuzTagScanner: one request from its response to its outcome           *)
(***************************************************************************)
\* the field a key path from the document root names
FieldAt(path) ==
    CASE path = <<"title">> -> "TAG_TITLE"
      [] path = <<"composer", "name">> -> "TAG_COMPOSER"
      [] path = <<"album", "title">> -> "TAG_ALBUM"
      [] path = <<"album", "artist", "name">> -> "TAG_ALBUM_ARTIST"
      [] path = <<"performer", "name">> -> "TAG_PERFORMER"
      [] path = <<"duration">> -> "duration"
      [] OTHER -> "none"

\* what a token did: the state in force when the object an exit_object
\* closes was entered, and the field the token's value was committed to
Observe(tr, rp, tok) ==
    LET rp2 == Callback(rp, tok)
        pop(seq) == IF seq = <<>> THEN <<>> ELSE SubSeq(seq, 1, Len(seq) - 1)
        path == CASE tok.t = "enter_object" -> Append(tr.path, "")
                  [] tok.t = "exit_object" -> pop(tr.path)
                  [] tok.t = "key" /\ tr.path # <<>> ->
                       [tr.path EXCEPT ![Len(tr.path)] = tok.v]
                  [] OTHER -> tr.path
        entered == CASE tok.t = "enter_object" -> Append(tr.entered, rp.state)
                     [] tok.t = "exit_object" -> pop(tr.entered)
                     [] OTHER -> tr.entered
        expected == IF tok.t = "string"
                       /\ FieldAt(tr.path) \notin {"none", "duration"}
                    THEN Append(tr.expected, [type |-> FieldAt(tr.path),
                                              value |-> tok.v])
                    ELSE tr.expected
        fresh == [rp EXCEPT !.tag.duration = NoDuration]
        committed ==
            IF Len(rp2.tag.items) > Len(rp.tag.items)
            THEN rp2.tag.items[Len(rp2.tag.items)].type
            ELSE IF Callback(fresh, tok).tag.duration.set THEN "duration"
            ELSE "none"
    IN  [tr EXCEPT
           !.path = path, !.entered = entered, !.expected = expected,
           !.extra_exit = @ \/ (tok.t = "exit_object" /\ tr.path = <<>>),
           !.last = [t |-> tok.t,
                     saved |-> IF tok.t = "exit_object" /\ tr.entered # <<>>
                               THEN tr.entered[Len(tr.entered)] ELSE "NONE",
                     committed |-> committed,
                     value |-> tok.n]]

\* the response arrives: CurlRequest calls MakeParser() with its status and
\* headers and reports what MakeParser() throws through OnError()
OnHeaders ==
    /\ scanner.phase = "request"
    /\ ~scanner.stopped
    /\ \E status \in Statuses, content_type \in ContentTypes, body \in Bodies :
         LET kind == MakeParser(status, content_type)
         IN  /\ scanner' =
                  IF kind = "throw"
                  THEN [scanner EXCEPT !.phase = "done",
                                       !.handler = OnError(@, "not_json")]
                  ELSE [scanner EXCEPT
                          !.phase = "body", !.parser = kind,
                          !.body = IF kind = "ResponseParser" THEN body
                                   ELSE NoBody]
             /\ trace' = [trace EXCEPT
                            !.status = status,
                            !.content_type = content_type,
                            !.extractor = (kind = "ResponseParser"),
                            !.document = IF kind = "ResponseParser"
                                         THEN body.script ELSE <<>>]
    /\ UNCHANGED stream_vars

\* YajlResponseParser::OnData(): yajl reads the next token of the body and
\* makes its callback, or reports a parse error that ends the request
OnData ==
    /\ scanner.phase = "body"
    /\ ~scanner.stopped
    /\ scanner.parser = "ResponseParser"
    /\ \E tok \in NextTokens(scanner.body) :
         IF YajlAccepts(scanner.yajl, tok)
         THEN /\ scanner' = [scanner EXCEPT
                               !.rp = Callback(@, tok),
                               !.yajl = YajlNext(@, tok),
                               !.body = Advance(@)]
              /\ trace' = Observe(trace, scanner.rp, tok)
         ELSE /\ scanner' = [scanner EXCEPT
                               !.phase = "done", !.body = NoBody,
                               !.handler = OnError(@, "parse")]
              /\ trace' = [trace EXCEPT
                             !.extra_exit =
                                 @ \/ (tok.t = "exit_object"
                                       /\ trace.path = <<>>)]
    /\ UNCHANGED stream_vars

\* the body ends: the QobuzErrorParser throws the error it parsed, yajl
\* reports a document that is not complete, and FinishParser() delivers the
\* tag of a complete one
OnEnd ==
    /\ scanner.phase = "body"
    /\ ~scanner.stopped
    /\ scanner.body.script = <<>>
    /\ scanner' =
         [scanner EXCEPT
            !.phase = "done", !.body = NoBody,
            !.handler = IF scanner.parser = "QobuzErrorParser"
                        THEN OnError(@, "remote")
                        ELSE IF scanner.yajl.done
                        THEN FinishParser(@, scanner.rp)
                        ELSE OnError(@, "parse")]
    /\ UNCHANGED trace
    /\ UNCHANGED stream_vars

\* the owner destroys the scanner, at any time
Destroy ==
    /\ ~trace.destroyed
    /\ scanner' = ScannerDtor(scanner)
    /\ trace' = [trace EXCEPT
                   !.destroyed = TRUE,
                   !.in_flight = scanner.phase # "done",
                   !.outcomes = scanner.handler.tags + scanner.handler.errors]
    /\ UNCHANGED stream_vars

\* one Qobuz request, the capture stream left alone
ScanInit == InitWith({<<>>}, RunConfigs)

ScanNext ==
    \/ OnHeaders
    \/ OnData
    \/ OnEnd
    \/ Destroy

ScanSpec == ScanInit /\ [][ScanNext]_vars


\* the event-loop thread keeps running while it is inside the read/recover
\* loop of DispatchSockets; what the driver answers is left open
DispatchFairSpec ==
    /\ Spec
    /\ WF_vars(DispatchCommit \/ DispatchAgain \/ DispatchRecover)

\* the event loop runs every callback that stays runnable
FairSpec ==
    /\ Spec
    /\ WF_vars(RunInvalidate)
    /\ WF_vars(RunResume)
    /\ WF_vars(Prepare)

(***************************************************************************)
(* Properties                                                              *)
(***************************************************************************)
Live == c_pc = "open"

\* a DispatchSockets run that got as far as PrepareWriteBuffer()
Claimed == disp.outcome \in {"pause", "reading", "commit", "again", "error"}

\* C1 (as stated): a dispatch pauses the stream and deregisters it from
\* the monitor if and only if the writable region it obtained is zero
\* bytes; with a non-zero region it attempts a driver read and does not
\* pause.
C1_PauseIffZeroBytes ==
    Claimed =>
        /\ (disp.outcome = "pause") <=> (disp.w = 0)
        /\ disp.outcome = "pause" => disp.paused_after /\ ~disp.sockets_after
        /\ disp.outcome # "pause" => ~disp.paused_after

\* C1 (amended): a dispatch pauses the stream and deregisters it from the
\* monitor if and only if the writable region it obtained holds no whole
\* frame (fewer than frame_size bytes); with at least one whole frame it
\* attempts a driver read and does not pause.
C1_PauseIffNoWholeFrame ==
    Claimed =>
        /\ (disp.outcome = "pause") <=> (disp.w < stream.frame_size)
        /\ disp.outcome = "pause" => disp.paused_after /\ ~disp.sockets_after
        /\ disp.outcome # "pause" => ~disp.paused_after /\ disp.frames >= 1

C1_Witness ==
    /\ disp.outcome = "pause"
    /\ disp.w = 1
    /\ stream.frame_size = 2
    /\ paused
    /\ ~sockets

\* C2: a consumer read on a paused stream schedules the resume exactly
\* when the free space has reached resume_at; the resume makes the stream
\* Ready and asks the monitor to register again, so that once the event
\* loop has run its pending callbacks a Ready stream is registered and a
\* Paused one is deregistered and either has less than resume_at bytes
\* free or was not read from since it paused; and a pending resume leads
\* to a Ready, registered stream unless the stream is destroyed.
C2_ReadSchedulesResume ==
    (Live /\ paused /\ size' < size) =>
        ((stream.capacity - size' >= stream.resume_at)
            <=> (\E i \in 1..Len(inject') : inject'[i] = "resume"))

C2_Settled ==
    (Live /\ el_pc = "idle" /\ inject = <<>> /\ ~refresh) =>
        IF paused
        THEN /\ ~sockets
             /\ Free < stream.resume_at \/ size = stream.capacity - disp.w
        ELSE sockets

C2_ResumePending ==
    Live /\ paused /\ (\E i \in 1..Len(inject) : inject[i] = "resume")

C2_ResumeAtThreshold ==
    /\ [][C2_ReadSchedulesResume]_vars
    /\ []C2_Settled
    /\ C2_ResumePending ~> ((~paused /\ sockets) \/ ~Live)

\* filled to capacity and paused, then exactly resume_at bytes consumed:
\* Ready and registered again, before any further dispatch
C2_Witness ==
    /\ Live
    /\ disp.outcome = "pause"
    /\ disp.w = 0
    /\ size = stream.capacity - stream.resume_at
    /\ stream.resume_at > 0
    /\ ~paused
    /\ sockets

\* C3: the bytes available stay within 0..capacity, and a dispatch never
\* commits more bytes than the span it claimed.
C3_BufferBounds ==
    /\ 0 <= size
    /\ size <= stream.capacity
    /\ disp.outcome = "commit" => disp.committed <= disp.w

C3_Witness ==
    /\ disp.outcome = "commit"
    /\ disp.committed = disp.w
    /\ disp.w > 0
    /\ size = stream.capacity

\* C4: PrepareSockets on a paused stream reports no descriptors and an
\* infinite timeout without consulting the driver, and consults the
\* driver when the stream is not paused; a paused stream has no
\* descriptors registered, so no dispatch is requested for it.
C4_PausedPrepareEmpty ==
    /\ prep.ran =>
        IF prep.paused
        THEN ~prep.fds /\ prep.timeout = -1 /\ ~prep.consulted
        ELSE prep.consulted
    /\ paused => ~sockets

C4_Witness == prep.ran /\ prep.paused /\ paused /\ Live

\* C5: a failure raised during a dispatch never leaves DispatchSockets:
\* it is stored as the pending error, the consumer is notified, and the
\* dispatch has returned to the event loop.
C5_DispatchCatchesAll ==
    /\ ~escaped
    /\ disp.outcome \in {"error", "throw0"} =>
        /\ disp.exc_after
        /\ disp.notified_after
        /\ el_pc = "idle"

C5_Witness ==
    /\ disp.outcome = "error"
    /\ disp.rec.ret < 0
    /\ postponed_exception
    /\ notified
    /\ ~escaped

PrepareThenStart(calls) ==
    calls \in {<<"prepare">>, <<"prepare", "start">>}

\* C6 (as stated): Recover takes exactly the table's action for the
\* device state: paused -> unpause; suspended -> attempt resume (success
\* when busy); open/setup/xrun -> re-prepare then restart;
\* prepared/running/draining -> nothing, reported as success.
C6_RecoverTable ==
    LET r == disp.rec
    IN  CASE r.state = "PAUSED" -> r.calls = <<"pause">>
          [] r.state = "SUSPENDED" ->
               /\ r.calls = <<"resume">>
               /\ r.resume = -EAGAIN => r.ret = 0
          [] r.state \in {"OPEN", "SETUP", "XRUN"} -> PrepareThenStart(r.calls)
          [] r.state \in {"PREPARED", "RUNNING", "DRAINING"} ->
               r.calls = <<>> /\ r.ret = 0
          [] OTHER -> TRUE

\* C6 (amended): as the table, except for a suspended device: Recover
\* attempts the resume; when the resume is busy it returns success with
\* no further call; otherwise, whatever the resume returned, it goes on
\* to re-prepare and restart capture as for open/setup/xrun.
C6_RecoverTableFallThrough ==
    LET r == disp.rec
    IN  CASE r.state = "PAUSED" -> r.calls = <<"pause">>
          [] r.state = "SUSPENDED" ->
               IF r.resume = -EAGAIN
               THEN r.calls = <<"resume">> /\ r.ret = 0
               ELSE /\ Head(r.calls) = "resume"
                    /\ PrepareThenStart(Tail(r.calls))
          [] r.state \in {"OPEN", "SETUP", "XRUN"} -> PrepareThenStart(r.calls)
          [] r.state \in {"PREPARED", "RUNNING", "DRAINING"} ->
               r.calls = <<>> /\ r.ret = 0
          [] OTHER -> TRUE

C6_Witness ==
    /\ disp.rec.state = "SUSPENDED"
    /\ disp.rec.resume = 0
    /\ disp.rec.calls = <<"resume", "prepare", "start">>
    /\ disp.rec.ret = 0
    /\ el_pc = "read"

\* C7: whatever error the read returned, Recover on a disconnected device
\* returns that error (fatal), and the dispatch ends there: nothing is
\* committed, the error is stored and the consumer is woken.
C7_DisconnectedIsFatal ==
    disp.rec.state = "DISCONNECTED" =>
        /\ disp.rec.ret = disp.rec.err
        /\ disp.rec.ret < 0
        /\ disp.rec.calls = <<>>
        /\ disp.outcome = "error"
        /\ disp.committed = 0
        /\ disp.exc_after
        /\ disp.notified_after
        /\ el_pc = "idle"

C7_Witness ==
    /\ disp.rec.state = "DISCONNECTED"
    /\ disp.rec.err = -EPIPE
    /\ disp.outcome = "error"
    /\ postponed_exception

\* C8: no driver call is ever made on a closed handle, and once the
\* destructor has closed the handle of a constructed stream the monitor
\* holds no descriptors, no re-evaluation is due, no deferred invocation
\* is pending and no dispatch is running.
C8_TeardownBeforeClose ==
    /\ ~touched_closed
    /\ (handle = "closed" /\ create.result = "stream") =>
        /\ ~sockets
        /\ ~refresh
        /\ inject = <<>>
        /\ el_pc = "idle"

\* destroyed right after a dispatch, with the monitor registered when the
\* destructor began
C8_Witness ==
    /\ handle = "closed"
    /\ create.result = "stream"
    /\ c_pc = "done"
    /\ disp.outcome = "commit"
    /\ disp.sockets_after
    /\ ~paused

\* the identifier starts with the scheme prefix, ignoring case
HasSchemePrefix(id) ==
    /\ Len(id) >= Len(ALSA_URI_PREFIX)
    /\ \A i \in 1..Len(ALSA_URI_PREFIX) : Lower(id[i]) = ALSA_URI_PREFIX[i]

Opened == create.result # "none"

\* C9: for an identifier without the scheme prefix the spec is not
\* scheme-valid and Create returns null: no error, no driver call, no
\* stream and nothing registered with the event loop.
C9_ForeignSchemeUntouched ==
    (Opened /\ ~HasSchemePrefix(uri)) =>
        /\ ~create.scheme
        /\ create.result = "null"
        /\ drv.open_calls = 0
        /\ handle = "none"
        /\ stream = NoStream
        /\ inject = <<>>
        /\ ~sockets

\* an identifier of another scheme whose query holds an undecodable format
C9_Witness ==
    /\ create.result = "null"
    /\ uri = <<"h","t","t","p",":","/","/","h","w",
               "?","f","o","r","m","a","t","=","x">>

\* C10: for an identifier that is scheme-valid but not fully valid (a
\* query without a format= key) opening fails with an error: no stream is
\* returned and the driver is never asked to open a device.
C10_UndecodedFormatFails ==
    (Opened /\ create.scheme /\ ~create.valid) =>
        /\ create.result = "error"
        /\ drv.open_calls = 0

\* the device segment of an identifier that carries the scheme prefix: what
\* stands between the prefix and the first '?' (or the end)
DeviceSegment(id) ==
    LET q == IndexOf(id, "?")
        last == IF q = 0 THEN Len(id) ELSE q - 1
    IN  SubSeq(id, Len(ALSA_URI_PREFIX) + 1, last)

\* C11: for every identifier that carries the scheme prefix, the resolved
\* device token of a constructed SourceSpec is the configured default
\* device when the device segment is empty (with or without a query) and
\* is the device segment itself when it is not empty.
C11_DeviceTokenDefaulted ==
    (Opened /\ HasSchemePrefix(uri) /\ create.decoded # "threw") =>
        create.device = IF DeviceSegment(uri) = <<>>
                        THEN config.default_device
                        ELSE View(DeviceSegment(uri))

\* an empty device segment followed by a query, under a configured default
\* device that differs from the built-in one
C11_Witness ==
    /\ Opened
    /\ uri = <<"A","L","S","A",":","/","/",
               "?","f","o","r","m","a","t","=","4",":","1","6",":","1">>
    /\ config.default_device = View(<<"h","w","1">>)
    /\ create.device = View(<<"h","w","1">>)
    /\ create.result \in {"stream", "error"}

\* a ResponseParser is at work on the response, or has finished it
Parsing == scanner.parser = "ResponseParser"

Delivered == scanner.handler.tags > 0

\* C12: for every well-nested token sequence the record handed over holds,
\* in token order, exactly the string scalars at the key paths title,
\* composer.name, album.title, album.artist.name and performer.name, and
\* no other item; the track document of the example gives title T, composer
\* C, album A, album artist AA and a duration of 187 seconds.
C12_RecordHoldsPathStrings ==
    Delivered =>
        /\ scanner.handler.tag.items = trace.expected
        /\ trace.document = TrackDocument =>
             /\ scanner.handler.tag.items =
                  << [type |-> "TAG_TITLE", value |-> "T"],
                     [type |-> "TAG_COMPOSER", value |-> "C"],
                     [type |-> "TAG_ALBUM", value |-> "A"],
                     [type |-> "TAG_ALBUM_ARTIST", value |-> "AA"] >>
             /\ scanner.handler.tag.duration = [set |-> TRUE, s |-> U32(187)]

\* the terminal field a path state names
TerminalField(state) ==
    CASE state = "TITLE" -> "TAG_TITLE"
      [] state = "COMPOSER_NAME" -> "TAG_COMPOSER"
      [] state = "ALBUM_TITLE" -> "TAG_ALBUM"
      [] state = "ALBUM_ARTIST_NAME" -> "TAG_ALBUM_ARTIST"
      [] state = "PERFORMER_NAME" -> "TAG_PERFORMER"
      [] state = "DURATION" -> "duration"
      [] OTHER -> "none"

\* the map depth at which a field is expected
ExpectedDepth(field) ==
    CASE field \in {"TAG_TITLE", "duration"} -> 1
      [] field \in {"TAG_COMPOSER", "TAG_ALBUM", "TAG_PERFORMER"} -> 2
      [] field = "TAG_ALBUM_ARTIST" -> 3

\* C16: a scalar is committed only if the path state names a terminal field
\* and the map depth is exactly that field's expected depth (title 1,
\* composer.name 2, album.title 2, album.artist.name 3, performer.name 2,
\* duration 1); a namesake key at another nesting level contributes nothing.
C16_CommitOnlyAtFieldDepth ==
    (Parsing /\ trace.last.committed # "none") =>
        /\ TerminalField(scanner.rp.state) = trace.last.committed
        /\ scanner.rp.map_depth = U32(ExpectedDepth(trace.last.committed))
        /\ FieldAt(trace.path) = trace.last.committed

\* C17: after an exit_object the path state is the state that was in force
\* when the object it closes was entered.
C17_ExitRestoresEnclosingState ==
    (Parsing /\ trace.last.t = "exit_object") =>
        scanner.rp.state = trace.last.saved

\* C18: an integer at the duration path is recorded as exactly that many
\* seconds when it is positive, whatever its 64-bit value, and is not
\* recorded when it is zero or negative.
C18_DurationEqualsInput ==
    (Parsing /\ trace.last.t = "integer" /\ trace.path = <<"duration">>) =>
        IF IsPositive(trace.last.value)
        THEN /\ scanner.rp.tag.duration.set
             /\ <<0, 0>> \o scanner.rp.tag.duration.s = trace.last.value.mag
        ELSE trace.last.committed = "none"

Outcomes == scanner.handler.tags + scanner.handler.errors

\* C13: a token sequence with more exit_object than enter_object events
\* ends in a parse error: the handler receives the error and no record, and
\* map_depth always counts the objects that are open, so it never goes
\* below zero.
C13_ExtraExitIsParseError ==
    /\ trace.extra_exit =>
         /\ scanner.phase = "done"
         /\ scanner.handler.tags = 0
         /\ scanner.handler.errors = 1
         /\ scanner.handler.error = "parse"
    /\ Parsing => scanner.rp.map_depth = U32(Len(trace.path))

\* {"title":"T"}} was rejected at its second closing brace
C13_Witness ==
    /\ trace.extra_exit
    /\ trace.document = ExtraExitDocument
    /\ scanner.rp.tag.items = <<[type |-> "TAG_TITLE", value |-> "T"]>>
    /\ scanner.handler.errors = 1

\* the media type of a content-type value: what stands before the first ';'
MediaType(content_type) == Split(content_type, ";")[1].s

\* the content type is a JSON media type
IsJsonType(content_type) ==
    /\ ~content_type.null
    /\ MediaType(content_type) \in {<<"a","p","p","l","i","c","a","t","i","o","n","/","j","s","o","n">>,
                                    <<"t","e","x","t","/","j","s","o","n">>}

\* the content type holds the text "/json" somewhere
HasJsonText(content_type) ==
    /\ ~content_type.null
    /\ \E i \in 1..Len(content_type.s) :
         /\ i + 4 <= Len(content_type.s)
         /\ content_type.s[i] = "/"
         /\ content_type.s[i + 1] = "j"
         /\ content_type.s[i + 2] = "s"
         /\ content_type.s[i + 3] = "o"
         /\ content_type.s[i + 4] = "n"

\* how a response is classified, IsJson(_) telling the JSON content types
Classified(IsJson(_)) ==
    trace.status # 0 =>
        /\ trace.status # 200 =>
             /\ ~trace.extractor
             /\ scanner.handler.tags = 0
             /\ scanner.phase = "done" => scanner.handler.error = "remote"
        /\ (trace.status = 200 /\ ~IsJson(trace.content_type)) =>
             /\ ~trace.extractor
             /\ scanner.phase = "done"
             /\ scanner.handler.tags = 0
             /\ scanner.handler.error = "not_json"
        /\ trace.extractor =>
             trace.status = 200 /\ IsJson(trace.content_type)

\* C14 as stated: a status other than 200 gives the structured-error parser
\* and a remote error, never the extractor; status 200 with a missing or
\* non-JSON content type gives a malformed-response error and no extractor;
\* only status 200 with a JSON content type drives the extractor.
C14_OnlyJsonTypeDrivesExtractor == Classified(IsJsonType)

\* C14: a status other than 200 gives the structured-error parser and a
\* remote error, never the extractor; status 200 with a content type that
\* is missing or does not hold the text "/json" gives a malformed-response
\* error and no extractor; only status 200 with a content type holding
\* "/json" drives the extractor.
C14_OnlyJsonTextDrivesExtractor == Classified(HasJsonText)

\* status 200 with content type application/jsonp: the record is delivered
C14_Witness ==
    /\ trace.status = 200
    /\ trace.content_type = View(<<"a","p","p","l","i","c","a","t","i","o","n","/","j","s","o","n","p">>)
    /\ trace.extractor
    /\ Delivered

\* C15: the handler receives one outcome for a request, a record or an
\* error and never both; once the scanner is destroyed the parser is gone
\* and the handler is not called again, so a request destroyed in flight
\* gives no outcome at all.
C15_OneOutcomeUnlessCancelled ==
    /\ Outcomes <= 1
    /\ scanner.phase = "done" => Outcomes = 1
    /\ trace.destroyed =>
         /\ scanner.parser = "none"
         /\ Outcomes = trace.outcomes
         /\ trace.in_flight => Outcomes = 0 /\ scanner.phase # "done"

\* the scanner was destroyed after the parser had committed an item
C15_Witness ==
    /\ trace.destroyed
    /\ trace.in_flight
    /\ trace.expected # <<>>
    /\ Outcomes = 0

\* C19: once a dispatch has stored a fatal error the stream stays failed:
\* the error stays stored, no further bytes are committed to the ring
\* buffer and driver recovery is not run again.
C19_ErroredIsTerminal ==
    [][postponed_exception =>
          /\ postponed_exception'
          /\ size' <= size
          /\ disp'.rec = disp.rec \/ disp'.rec = NoRecover]_vars

\* C20: every dispatch terminates: the read/recover loop of DispatchSockets
\* is left, and the mutex released, whatever the driver read and Recover
\* return.
C20_DispatchTerminates == (el_pc = "read") ~> (el_pc = "idle")

\* C21: the driver handle is closed exactly once if and only if
\* snd_pcm_open() succeeded: nothing is closed when the open fails; when
\* ConfigureCapture() fails the handle is closed before the error leaves
\* Create(), capture is never started and the stream is never ready; a
\* constructed stream keeps its handle open until the destructor closes
\* it, once.
C21_HandleClosedOnceIffOpened ==
    /\ drv.opened <= 1
    /\ drv.closed <= drv.opened
    /\ (handle = "closed") = (drv.closed = 1)
    /\ drv.opened = 0 => handle = "none"
    /\ create.result = "error" =>
         /\ drv.closed = drv.opened
         /\ drv.started = 0
         /\ ~stream.ready
         /\ c_pc = "done"
    /\ create.result = "stream" =>
         /\ drv.opened = 1
         /\ c_pc # "done" => handle = "open" /\ drv.closed = 0
         /\ c_pc = "done" => handle = "closed" /\ drv.closed = 1

\* snd_pcm_open() succeeded and ConfigureCapture() failed
C21_Witness ==
    /\ create.result = "error"
    /\ drv.opened = 1
    /\ drv.closed = 1
    /\ handle = "closed"

\* a step of the thread that constructs, reads and destroys the stream
\* (the destructor's lambda is the event loop's step)
OtherThreadStep ==
    \/ c_pc' # c_pc /\ c_pc # "dtor_wait"
    \/ size' < size

\* the monitor's registration or its pending re-evaluation changes
MonitorTouched ==
    \/ refresh' # refresh
    \/ sockets' # sockets
    \/ prep' # prep

\* C22: the monitor's registration and its re-evaluation change only in
\* steps of the event-loop thread: the constructing thread and a consumer
\* read that warrants a resume leave the monitor alone and at most append
\* one deferred invocation to the event loop's queue.
C22_MonitorOnlyOnEventLoop ==
    [][OtherThreadStep =>
          /\ ~MonitorTouched
          /\ \/ inject' = inject
             \/ \E ev \in {"invalidate", "resume", "teardown"} :
                    inject' = Append(inject, ev)]_vars

\* a consumer read has asked for a resume that the event loop has not run
\* yet: the stream is still paused and nothing is registered
C22_Witness ==
    /\ c_pc = "open"
    /\ paused
    /\ \E i \in 1..Len(inject) : inject[i] = "resume"
    /\ ~sockets
    /\ ~refresh

=============================================================================
